---- MODULE Spec2Model ----
(***************************************************************************)
(* Cloudflare tail worker forwarding tail events to the Coralogix Singles  *)
(* API (src/src/index.js).                                                 *)
(*                                                                         *)
(* JavaScript values are encoded as records tagged by the field t:         *)
(*   undefined, null, strings (opaque: field s; decomposable into          *)
(*   characters: field cs), numbers (decimal m / 10^e, or NaN), arrays     *)
(*   (field items), objects with the named properties the code reads, and  *)
(*   header objects with dynamic keys (field entries, insertion order).    *)
(* A property a JS object does not carry is either left out of the record  *)
(* or held as Undefined: both read as undefined.                           *)
(***************************************************************************)
EXTENDS Integers, Sequences, FiniteSets, TLC

VARIABLES
    tailEvents,  \* the batch handed to tail() (its parameter events)
    workerEnv,   \* the worker's environment bindings (the parameter env)
    pc,          \* tail(): "idle" | "returned" | "thrown"; pure calls: "call" | "done"
    batches,     \* the local `batches` of tail(), once it is computed
    built,       \* per owning event, the records tail() pushed for it
    batchLogs,   \* per batch, the `logs` array tail() had built for it
    deliveries,  \* one entry per sendToCoralogix() call, in call order
    waitUntil,   \* the deliveries handed to ctx.waitUntil
    console,     \* the messages written to the console
    arg,         \* argument of a direct call of a pure function
    ret          \* its return value

vars == <<tailEvents, workerEnv, pc, batches, built, batchLogs, deliveries, waitUntil, console, arg, ret>>

(***************************************************************************)
(* JavaScript values                                                       *)
(***************************************************************************)
Undefined == [t |-> "undefined"]
Null == [t |-> "null"]
Str(s) == [t |-> "string", s |-> s]
Chars(cs) == [t |-> "string", cs |-> cs]
Num(n) == [t |-> "number", m |-> n, e |-> 0]
Dec(m, e) == [t |-> "number", m |-> m, e |-> e]
NaN == [t |-> "number", nan |-> TRUE]
Bool(b) == [t |-> "boolean", b |-> b]
Arr(items) == [t |-> "array", items |-> items]
Headers(entries) == [t |-> "object", entries |-> entries]
EmptyObject == Headers(<<>>)
Thrown == [t |-> "throw", error |-> "TypeError"]

IsNullish(v) == v = Undefined \/ v = Null
IsString(v) == v.t = "string"
IsChars(v) == v.t = "string" /\ "cs" \in DOMAIN v
IsArray(v) == v.t = "array"
IsThrown(v) == v.t = "throw"

\* ToBoolean: undefined, null, "", 0, NaN and false are falsy.
Truthy(v) ==
    CASE v.t = "undefined" -> FALSE
      [] v.t = "null" -> FALSE
      [] v.t = "string" -> IF "cs" \in DOMAIN v THEN v.cs # <<>> ELSE v.s # ""
      [] v.t = "number" -> IF "nan" \in DOMAIN v THEN FALSE ELSE v.m # 0
      [] v.t = "boolean" -> v.b
      [] OTHER -> TRUE

\* a || b
Or(a, b) == IF Truthy(a) THEN a ELSE b

\* v.f on a value that is not nullish (a primitive has no own properties).
Prop(v, f) == IF v.t = "object" /\ f \in DOMAIN v THEN v[f] ELSE Undefined

\* v?.f
OptProp(v, f) == IF IsNullish(v) THEN Undefined ELSE Prop(v, f)

\* h[key] on a header object (keys are compared exactly, case included).
HGet(h, key) ==
    IF h.t = "object" /\ "entries" \in DOMAIN h
        /\ \E i \in DOMAIN h.entries : h.entries[i].k = key
    THEN h.entries[CHOOSE i \in DOMAIN h.entries : h.entries[i].k = key].v
    ELSE Undefined

\* Object.entries(h)
Entries(h) == IF h.t = "object" /\ "entries" \in DOMAIN h THEN h.entries ELSE <<>>

\* acc[k] = v : overwrite in place, or append a new key.
HSet(acc, k, v) ==
    IF \E i \in DOMAIN acc : acc[i].k = k
    THEN [i \in DOMAIN acc |-> IF acc[i].k = k THEN [k |-> k, v |-> v] ELSE acc[i]]
    ELSE Append(acc, [k |-> k, v |-> v])

(***************************************************************************)
(* Characters                                                              *)
(***************************************************************************)
UpperCase == <<"A","B","C","D","E","F","G","H","I","J","K","L","M",
               "N","O","P","Q","R","S","T","U","V","W","X","Y","Z">>
LowerCase == <<"a","b","c","d","e","f","g","h","i","j","k","l","m",
               "n","o","p","q","r","s","t","u","v","w","x","y","z">>
Digits == {"0","1","2","3","4","5","6","7","8","9"}
Alpha == {UpperCase[i] : i \in DOMAIN UpperCase} \cup {LowerCase[i] : i \in DOMAIN LowerCase}

ToLowerChar(c) ==
    IF \E i \in DOMAIN UpperCase : UpperCase[i] = c
    THEN LowerCase[CHOOSE i \in DOMAIN UpperCase : UpperCase[i] = c]
    ELSE c

\* key.toLowerCase()
toLowerCase(cs) == [i \in DOMAIN cs |-> ToLowerChar(cs[i])]

\* Mutant: only the first hyphen is replaced.
replaceFirstHyphen(cs) ==
    [i \in DOMAIN cs |->
        IF cs[i] = "-" /\ \A j \in 1..(i - 1) : cs[j] # "-" THEN "_" ELSE cs[i]]

\* key.replace(/-/g, '_')
replaceHyphens(cs) == [i \in DOMAIN cs |-> IF cs[i] = "-" THEN "_" ELSE cs[i]]

\* cs.slice(from - 1): the characters from position `from` on.
From(cs, from) == SubSeq(cs, from, Len(cs))

\* Position of the first character of cs that is in stop, Len(cs) + 1 if none.
FirstIn(cs, stop) ==
    IF \E i \in DOMAIN cs : cs[i] \in stop
    THEN CHOOSE i \in DOMAIN cs : cs[i] \in stop /\ \A j \in 1..(i - 1) : cs[j] \notin stop
    ELSE Len(cs) + 1

\* Position of the first character of cs that is not in skip, Len(cs) + 1 if none.
FirstNotIn(cs, skip) ==
    IF \E i \in DOMAIN cs : cs[i] \notin skip
    THEN CHOOSE i \in DOMAIN cs : cs[i] \notin skip /\ \A j \in 1..(i - 1) : cs[j] \in skip
    ELSE Len(cs) + 1

\* Position of the last occurrence of c in cs, 0 if none.
LastOf(cs, c) ==
    IF \E i \in DOMAIN cs : cs[i] = c
    THEN CHOOSE i \in DOMAIN cs : cs[i] = c /\ \A j \in (i + 1)..Len(cs) : cs[j] # c
    ELSE 0

K_host == <<"h","o","s","t">>
K_cf_ray == <<"c","f","-","r","a","y">>
K_cf_connecting_ip == <<"c","f","-","c","o","n","n","e","c","t","i","n","g","-","i","p">>
K_cf_cache_status == <<"c","f","-","c","a","c","h","e","-","s","t","a","t","u","s">>

(***************************************************************************)
(* Number <-> string conversions                                           *)
(***************************************************************************)
DigitSeq == <<"0","1","2","3","4","5","6","7","8","9">>
DigitValue(c) == (CHOOSE i \in DOMAIN DigitSeq : DigitSeq[i] = c) - 1

RECURSIVE NatOfDigits(_)
NatOfDigits(ds) ==
    IF ds = <<>> THEN 0
    ELSE 10 * NatOfDigits(SubSeq(ds, 1, Len(ds) - 1)) + DigitValue(ds[Len(ds)])

RECURSIVE DigitsOfNat(_)
DigitsOfNat(n) ==
    IF n < 10 THEN <<DigitSeq[n + 1]>>
    ELSE Append(DigitsOfNat(n \div 10), DigitSeq[(n % 10) + 1])

\* A decimal m / 10^e without trailing zeros in the fraction.
RECURSIVE Normalize(_, _)
Normalize(m, e) ==
    IF e > 0 /\ m % 10 = 0 THEN Normalize(m \div 10, e - 1) ELSE Dec(m, e)

Abs(n) == IF n < 0 THEN 0 - n ELSE n

RECURSIVE PadLeft(_, _)
PadLeft(ds, n) == IF Len(ds) >= n THEN ds ELSE PadLeft(<<"0">> \o ds, n)

\* Number.prototype.toString() of a finite decimal, "NaN" of NaN.
NumberToChars(v) ==
    IF "nan" \in DOMAIN v THEN <<"N","a","N">>
    ELSE LET ds == PadLeft(DigitsOfNat(Abs(v.m)), v.e + 1)
             int == SubSeq(ds, 1, Len(ds) - v.e)
             frac == SubSeq(ds, Len(ds) - v.e + 1, Len(ds))
         IN (IF v.m < 0 THEN <<"-">> ELSE <<>>) \o int
            \o (IF v.e > 0 THEN <<".">> \o frac ELSE <<>>)

\* x?.toString() for the values the code applies it to.
OptToString(v) ==
    CASE IsNullish(v) -> Undefined
      [] v.t = "number" -> Chars(NumberToChars(v))
      [] OTHER -> v

\* String(v) as characters, for the values handed to URL, parseFloat, parseInt.
ToChars(v) ==
    CASE v.t = "undefined" -> <<"u","n","d","e","f","i","n","e","d">>
      [] v.t = "null" -> <<"n","u","l","l">>
      [] v.t = "number" -> NumberToChars(v)
      [] v.t = "string" /\ "cs" \in DOMAIN v -> v.cs
      [] OTHER -> <<"[","o","b","j","e","c","t","]">>

\* The number read from the digits before and after the decimal point.
numericValue(neg, intDigits, fracDigits) ==
    IF intDigits = <<>> /\ fracDigits = <<>> THEN NaN
    ELSE Normalize(IF neg THEN 0 - NatOfDigits(intDigits \o fracDigits)
                   ELSE NatOfDigits(intDigits \o fracDigits),
                   Len(fracDigits))

\* The digits of the fraction, when a decimal point follows the integer part.
fractionDigits(rest, withFraction) ==
    IF withFraction /\ rest # <<>> /\ rest[1] = "."
    THEN SubSeq(rest, 2, FirstNotIn(Tail(rest), Digits))
    ELSE <<>>

\* body: the characters after the sign; intEnd: where its leading digits end.
numericBody(neg, body, intEnd, withFraction) ==
    numericValue(neg, SubSeq(body, 1, intEnd - 1),
                 fractionDigits(From(body, intEnd), withFraction))

numericSigned(trimmed, body, withFraction) ==
    numericBody(trimmed # <<>> /\ trimmed[1] = "-", body, FirstNotIn(body, Digits),
                withFraction)

numericTrimmed(trimmed, withFraction) ==
    numericSigned(trimmed,
                  IF trimmed # <<>> /\ trimmed[1] \in {"+", "-"} THEN Tail(trimmed)
                  ELSE trimmed,
                  withFraction)

\* The longest numeric prefix [+-]digits[.digits] of cs (after leading blanks);
\* exponents and Infinity are not modelled.
NumericPrefix(cs, withFraction) ==
    numericTrimmed(From(cs, FirstNotIn(cs, {" "})), withFraction)

\* parseFloat(v)
parseFloat(v) == NumericPrefix(ToChars(v), TRUE)

\* parseInt(v)
parseInt(v) == NumericPrefix(ToChars(v), FALSE)

(***************************************************************************)
(* new URL(input) without a base: the WHATWG parser restricted to          *)
(* scheme, authority (userinfo, host, port), path, query and fragment.     *)
(* File URLs, IPv6 hosts, percent-encoding and dot segments are left out.  *)
(***************************************************************************)
SchemeChars == Alpha \cup Digits \cup {"+", "-", "."}
SpecialSchemes == {<<"h","t","t","p">>, <<"h","t","t","p","s">>,
                   <<"w","s">>, <<"w","s","s">>, <<"f","t","p">>}
ForbiddenHostChars == {" ", "#", "/", ":", "<", ">", "?", "@", "[", "\\", "]", "^", "|", "%"}

UrlFailure == [ok |-> FALSE]

\* The URL record, or failure on an empty or forbidden host or a bad port.
urlRecord(special, hasAuthority, host, port, path, query) ==
    IF special /\ host = <<>> THEN UrlFailure
    ELSE IF hasAuthority /\ \E i \in DOMAIN host : host[i] \in ForbiddenHostChars
         THEN UrlFailure
    ELSE IF hasAuthority /\ \E i \in DOMAIN port : port[i] \notin Digits THEN UrlFailure
    ELSE [ok |-> TRUE,
          hostname |-> IF special THEN toLowerCase(host) ELSE host,
          pathname |-> IF special
                       THEN IF path = <<>> THEN <<"/">>
                            ELSE [i \in DOMAIN path |->
                                     IF path[i] = "\\" THEN "/" ELSE path[i]]
                       ELSE path,
          search |-> IF Len(query) <= 1 THEN <<>> ELSE query]

\* afterPath: what follows the path, a query when it starts with "?".
urlQuery(afterPath) ==
    IF afterPath # <<>> /\ afterPath[1] = "?"
    THEN SubSeq(afterPath, 1, FirstIn(afterPath, {"#"}) - 1)
    ELSE <<>>

urlPath(special, hasAuthority, host, port, afterAuthority, pathEnd) ==
    urlRecord(special, hasAuthority, host, port,
              SubSeq(afterAuthority, 1, pathEnd - 1),
              urlQuery(From(afterAuthority, pathEnd)))

urlHostPort(special, hasAuthority, hostport, portAt, afterAuthority) ==
    urlPath(special, hasAuthority, SubSeq(hostport, 1, portAt - 1),
            From(hostport, portAt + 1), afterAuthority,
            FirstIn(afterAuthority, {"?", "#"}))

urlAuthority(special, hasAuthority, authority, afterAuthority) ==
    urlHostPort(special, hasAuthority, From(authority, LastOf(authority, "@") + 1),
                FirstIn(From(authority, LastOf(authority, "@") + 1), {":"}),
                afterAuthority)

urlAfterSlashes(special, hasAuthority, afterSlashes, authEnd) ==
    urlAuthority(special, hasAuthority, SubSeq(afterSlashes, 1, authEnd - 1),
                 From(afterSlashes, authEnd))

urlSlashes(special, hasAuthority, slashes, rest) ==
    IF special
    THEN urlAfterSlashes(special, hasAuthority, From(rest, FirstNotIn(rest, slashes)),
             FirstIn(From(rest, FirstNotIn(rest, slashes)), slashes \cup {"?", "#"}))
    ELSE IF hasAuthority
         THEN urlAfterSlashes(special, hasAuthority, From(rest, 3),
                  FirstIn(From(rest, 3), slashes \cup {"?", "#"}))
         ELSE urlAfterSlashes(special, hasAuthority, rest, 1)

urlAfterScheme(special, rest) ==
    urlSlashes(special,
               special \/ (Len(rest) >= 2 /\ rest[1] = "/" /\ rest[2] = "/"),
               IF special THEN {"/", "\\"} ELSE {"/"},
               rest)

urlScheme(cs, colon) ==
    IF /\ 1 < colon
       /\ colon <= Len(cs)
       /\ cs[1] \in Alpha
       /\ \A j \in 1..(colon - 1) : cs[j] \in SchemeChars
    THEN urlAfterScheme(toLowerCase(SubSeq(cs, 1, colon - 1)) \in SpecialSchemes,
                        From(cs, colon + 1))
    ELSE UrlFailure

ParseURL(cs) == urlScheme(cs, FirstIn(cs, {":"}))

\* parsedUrl.search.replace('?', ''): the first "?" is removed.
StripFirstQuestionMark(cs) ==
    LET q == FirstIn(cs, {"?"})
    IN SubSeq(cs, 1, q - 1) \o From(cs, q + 1)

(***************************************************************************)
(* tailEvent2fastly                                                        *)
(***************************************************************************)
\* Object.entries(headers).reduce(... acc[fold(key)] = value ...)
RECURSIVE FoldEntries(_, _)
FoldEntries(entries, acc) ==
    IF entries = <<>> THEN acc
    ELSE FoldEntries(Tail(entries),
                     HSet(acc, replaceHyphens(toLowerCase(Head(entries).k)), Head(entries).v))

foldHeaders(h) == Headers(FoldEntries(Entries(h), <<>>))

\* responseHeaders['cf-cache-status']
cacheStatus(responseHeaders) == HGet(responseHeaders, K_cf_cache_status)

\* parseFloat(x) || undefined
geoCoordinate(x) == Or(parseFloat(x), Undefined)

\* Mutant: a request without headers is refused too.
noRequestOrNoHeaders(request) == ~Truthy(request) \/ ~Truthy(Prop(request, "headers"))

\* if (!request) return null
noRequest(request) == ~Truthy(request)

\* The record returned at lines 48-111.
fastlyRecord(tailEvent, request, response, cf, headers, responseHeaders, parsedUrl, ip) ==
    [t |-> "object",
     request |-> [
         t |-> "object",
         method |-> Prop(request, "method"),
         host |-> Or(HGet(headers, K_host), Chars(parsedUrl.hostname)),
         url |-> Chars(parsedUrl.pathname),
         qs |-> Chars(StripFirstQuestionMark(parsedUrl.search)),
         protocol |-> OptProp(cf, "httpProtocol"),
         backend |-> Str("cloudflare_worker"),
         restarts |-> Num(0),
         body_size |-> Num(0),
         headers |-> foldHeaders(headers)],
     response |-> [
         t |-> "object",
         status |-> OptToString(OptProp(response, "status")),
         body_size |-> Num(0),
         headers |-> foldHeaders(responseHeaders)],
     helix |-> [
         t |-> "object",
         request_type |-> Str("dynamic"),
         backend_type |-> Str("cloudflare"),
         contentbus_prefix |-> Str("live")],
     client |-> [
         t |-> "object",
         name |-> OptProp(cf, "asOrganization"),
         number |-> OptProp(cf, "asn"),
         city_name |-> OptProp(cf, "city"),
         country_name |-> OptProp(cf, "country"),
         ip |-> ip],
     cdn |-> [
         t |-> "object",
         originating_ip_geoip |-> [
             t |-> "object",
             ip |-> ip,
             ip_ipaddr |-> ip,
             location_geopoint |-> [
                 t |-> "object",
                 lat |-> geoCoordinate(OptProp(cf, "latitude")),
                 lon |-> geoCoordinate(OptProp(cf, "longitude"))],
             continent_name |-> OptProp(cf, "continent"),
             country_name |-> OptProp(cf, "country"),
             city_name |-> OptProp(cf, "city"),
             postal_code |-> OptProp(cf, "postalCode"),
             is_local |-> Bool(FALSE),
             asn |-> [
                 t |-> "object",
                 number |-> OptToString(OptProp(cf, "asn")),
                 organization |-> OptProp(cf, "asOrganization")]],
         version |-> Str("1"),
         url |-> Prop(request, "url"),
         originating_ip |-> ip,
         time_elapsed_msec |-> Prop(tailEvent, "wallTime"),
         is_edge |-> Bool(TRUE),
         datacenter |-> OptProp(cf, "colo"),
         region_code |-> OptProp(cf, "regionCode"),
         cache_status |-> cacheStatus(responseHeaders),
         cache_ttl |-> Num(0)]]

\* try { parsedUrl = new URL(request.url) } catch (e) { return null }
convertParsed(tailEvent, request, response, cf, headers, responseHeaders, parsedUrl) ==
    IF ~parsedUrl.ok THEN Null
    ELSE fastlyRecord(tailEvent, request, response, cf, headers, responseHeaders,
                      parsedUrl, Or(OptProp(cf, "ip"), HGet(headers, K_cf_connecting_ip)))

convertRequest(tailEvent, request, response, cf, headers, responseHeaders) ==
    IF noRequest(request) THEN Null
    ELSE convertParsed(tailEvent, request, response, cf, headers, responseHeaders,
                       ParseURL(ToChars(Prop(request, "url"))))

\* const request = ...; const response = ...; const cf = ...; (lines 30-34)
convertEvent(tailEvent, request, response) ==
    convertRequest(tailEvent, request, response, OptProp(request, "cf"),
                   Or(OptProp(request, "headers"), EmptyObject),
                   Or(OptProp(response, "headers"), EmptyObject))

tailEvent2fastly(tailEvent) ==
    convertEvent(tailEvent, OptProp(Prop(tailEvent, "event"), "request"),
                 OptProp(Prop(tailEvent, "event"), "response"))

(***************************************************************************)
(* Log normalizer                                                          *)
(* console.warn diagnostics (among them the sampled ones of getValueOrLog) *)
(* change no value the worker computes and are not recorded.               *)
(***************************************************************************)
\* JSON.stringify(v), String(v) and Array.prototype.join kept symbolic.
JsonText(v) == [t |-> "string", json |-> v]
StringOf(v) == IF v.t = "string" THEN v ELSE [t |-> "string", of |-> v]
Joined(parts) == [t |-> "string", join |-> parts, sep |-> " "]

\* Date.now()
DateNow == [t |-> "number", now |-> TRUE]

\* SEVERITY_MAP[level]
SEVERITY_MAP(level) ==
    CASE level = Str("debug") -> Num(1)
      [] level = Str("info") -> Num(3)
      [] level = Str("log") -> Num(3)
      [] level = Str("warn") -> Num(4)
      [] level = Str("error") -> Num(5)
      [] OTHER -> Undefined

getValueOrLog(value) ==
    IF value # Undefined /\ value # Null /\ value # Str("") /\ value # Chars(<<>>)
    THEN value
    ELSE Null

\* The lookups of extractRayId once request and headers are there.
rayIdLookups(event, request, requestHeaders) ==
    LET cfRayHeader == getValueOrLog(HGet(requestHeaders, K_cf_ray))
        cfRayObject == getValueOrLog(OptProp(Prop(request, "cf"), "ray"))
        eventRayId == getValueOrLog(Prop(event, "rayId"))
    IN IF Truthy(cfRayHeader) THEN cfRayHeader
       ELSE IF Truthy(cfRayObject) THEN cfRayObject
       ELSE IF Truthy(eventRayId) THEN eventRayId
       ELSE Undefined

extractRayId(event, logData) ==
    LET request == Or(OptProp(Prop(event, "event"), "request"), Prop(logData, "request"))
        requestHeaders == Prop(request, "headers")
    IN IF ~Truthy(request) THEN Undefined
       ELSE IF ~Truthy(requestHeaders) THEN Undefined
       ELSE rayIdLookups(event, request, requestHeaders)

formatConsoleMessage(message) ==
    IF ~IsArray(message) THEN StringOf(message)
    ELSE Joined([i \in DOMAIN message.items |->
                    IF message.items[i].t \in {"object", "array", "null"}
                    THEN JsonText(message.items[i])
                    ELSE StringOf(message.items[i])])

\* Mutant: the thresholds are exclusive.
severityOfCodeExclusive(statusCode) ==
    IF "nan" \notin DOMAIN statusCode /\ statusCode.m > 500 THEN Num(5)
    ELSE IF "nan" \notin DOMAIN statusCode /\ statusCode.m > 400 THEN Num(4)
    ELSE Num(3)

\* statusCode >= 500 ? 5 : statusCode >= 400 ? 4 : 3 (comparisons with NaN fail)
severityOfCode(statusCode) ==
    IF "nan" \notin DOMAIN statusCode /\ statusCode.m >= 500 THEN Num(5)
    ELSE IF "nan" \notin DOMAIN statusCode /\ statusCode.m >= 400 THEN Num(4)
    ELSE Num(3)

\* Severity of a converted fetch record, from fastlyLog.response?.status.
statusSeverity(status, default) ==
    IF Truthy(status) THEN severityOfCode(parseInt(status)) ELSE default

\* threadId: rayId || scriptName
threadIdOf(rayId, scriptName) == Or(rayId, scriptName)

\* Mutant: computerName falls back like subsystemName.
baseLogComputerFallback(timestamp, scriptName, rayId, env, type) ==
    [t |-> "object",
     timestamp |-> timestamp,
     applicationName |-> Or(env.APPLICATION_NAME, Str("cloudflare-tail")),
     subsystemName |-> Or(scriptName, env.SUBSYSTEM_NAME),
     computerName |-> Or(scriptName, env.SUBSYSTEM_NAME),
     severity |-> Num(3),
     text |-> Str(""),
     category |-> Str(type),
     className |-> Str("TailWorker"),
     methodName |-> Undefined,
     threadId |-> threadIdOf(rayId, scriptName)]

\* The base log structure (lines 233-243).
baseLog(timestamp, scriptName, rayId, env, type) ==
    [t |-> "object",
     timestamp |-> timestamp,
     applicationName |-> Or(env.APPLICATION_NAME, Str("cloudflare-tail")),
     subsystemName |-> Or(scriptName, env.SUBSYSTEM_NAME),
     computerName |-> scriptName,
     severity |-> Num(3),
     text |-> Str(""),
     category |-> Str(type),
     className |-> Str("TailWorker"),
     methodName |-> Undefined,
     threadId |-> threadIdOf(rayId, scriptName)]

\* case 'console'
consoleLog(log, logData) ==
    [log EXCEPT !.severity = Or(SEVERITY_MAP(Prop(logData, "level")), Num(3)),
                !.text = formatConsoleMessage(Prop(logData, "message")),
                !.methodName = Prop(logData, "level")]

\* case 'exception'
exceptionLog(log, logData) ==
    [log EXCEPT !.severity = Num(5),
                !.text = JsonText([t |-> "object",
                                   name |-> Prop(logData, "name"),
                                   message |-> Prop(logData, "message"),
                                   timestamp |-> Prop(logData, "timestamp")]),
                !.className = Prop(logData, "name"),
                !.methodName = Str("exception")]

\* Mutant: a failed conversion is reported as an error.
fetchLogFailureAsError(log, fastlyLog) ==
    IF ~Truthy(fastlyLog)
    THEN [log EXCEPT !.text = Str("Failed to convert fetch event"), !.severity = Num(5)]
    ELSE [log EXCEPT !.text = JsonText(fastlyLog),
                     !.methodName = Str("fetch"),
                     !.severity = statusSeverity(OptProp(fastlyLog.response, "status"),
                                                 log.severity)]

\* case 'fetch', with fastlyLog = tailEvent2fastly(event)
fetchLog(log, fastlyLog) ==
    IF ~Truthy(fastlyLog)
    THEN [log EXCEPT !.text = Str("Failed to convert fetch event")]
    ELSE [log EXCEPT !.text = JsonText(fastlyLog),
                     !.methodName = Str("fetch"),
                     !.severity = statusSeverity(OptProp(fastlyLog.response, "status"),
                                                 log.severity)]

\* switch (type)
formatLog(log, logData, event, type) ==
    CASE type = "console" -> consoleLog(log, logData)
      [] type = "exception" -> exceptionLog(log, logData)
      [] type = "fetch" -> fetchLog(log, tailEvent2fastly(event))
      [] OTHER -> log

\* createCoralogixLog: the record, or Thrown when reading logData or event
\* raises a TypeError (a null or undefined logData or event).
createCoralogixLog(logData, event, env, type) ==
    IF IsNullish(logData) \/ IsNullish(event) THEN Thrown
    ELSE formatLog(baseLog(Or(Prop(logData, "timestamp"), DateNow),
                           Prop(event, "scriptName"),
                           extractRayId(event, logData), env, type),
                   logData, event, type)

(***************************************************************************)
(* tail(events, env, ctx)                                                  *)
(***************************************************************************)
batchSize == 100

\* Mutant: the endpoint is not validated.
configMissingKeyOnly(env) == ~Truthy(env.CORALOGIX_API_KEY)

\* !env.CORALOGIX_API_KEY || !env.CORALOGIX_ENDPOINT
configMissing(env) == ~Truthy(env.CORALOGIX_API_KEY) \/ ~Truthy(env.CORALOGIX_ENDPOINT)

Min(a, b) == IF a <= b THEN a ELSE b

\* a.slice(from, to) with 0 <= from <= to (zero-based, end exclusive)
slice(a, from, to) == SubSeq(a, from + 1, Min(to, Len(a)))

\* Mutant: the slice ends one element early.
batchAtShort(events, i) == slice(events, i, i + batchSize - 1)

\* events.slice(i, i + batchSize)
batchAt(events, i) == slice(events, i, i + batchSize)

\* for (let i = 0; i < events.length; i += batchSize) batches.push(...)
RECURSIVE batchesFrom(_, _)
batchesFrom(events, i) ==
    IF i < Len(events)
    THEN <<batchAt(events, i)>> \o batchesFrom(events, i + batchSize)
    ELSE <<>>

splitBatches(events) == batchesFrom(events, 0)

\* for...of accepts arrays and strings; anything else raises a TypeError.
Iterable(v) == IsArray(v) \/ IsChars(v)
IterItems(v) == IF IsArray(v) THEN v.items ELSE [i \in DOMAIN v.cs |-> Chars(<<v.cs[i]>>)]

\* for (const item of items) logs.push(createCoralogixLog(item, event, env, type))
RECURSIVE pushLogs(_, _, _, _, _)
RECURSIVE pushLog(_, _, _, _, _, _)
pushLogs(items, event, env, type, acc) ==
    IF items = <<>> THEN acc
    ELSE pushLog(createCoralogixLog(Head(items), event, env, type), Tail(items),
                 event, env, type, acc)

\* logs.push(log), unless creating it raised; then the next item
pushLog(log, rest, event, env, type, acc) ==
    IF IsThrown(log) THEN [acc EXCEPT !.thrown = TRUE]
    ELSE pushLogs(rest, event, env, type, [acc EXCEPT !.logs = Append(@, log)])

\* if (list) { for (const item of list) ... }
pushEach(list, event, env, type, acc) ==
    IF acc.thrown \/ ~Truthy(list) THEN acc
    ELSE IF ~Iterable(list) THEN [acc EXCEPT !.thrown = TRUE]
    ELSE pushLogs(IterItems(list), event, env, type, acc)

\* Mutant: any event.event counts as a fetch event.
hasFetchEventAnyEvent(event) == Truthy(Prop(event, "event"))

\* event.event && event.event.request
hasFetchEvent(event) ==
    Truthy(Prop(event, "event")) /\ Truthy(Prop(Prop(event, "event"), "request"))

\* if (event.event && event.event.request) logs.push(...)
pushFetch(event, env, acc) ==
    IF acc.thrown THEN acc
    ELSE IF hasFetchEvent(event)
         THEN pushLogs(<<Prop(event, "event")>>, event, env, "fetch", acc)
         ELSE acc

\* The body of `for (const event of batch)`: the records pushed for one owning
\* event, and whether a TypeError was raised on the way.
eventLogs(event, env) ==
    IF IsNullish(event) THEN [thrown |-> TRUE, logs |-> <<>>]
    ELSE pushFetch(event, env,
             pushEach(Prop(event, "exceptions"), event, env, "exception",
                 pushEach(Prop(event, "logs"), event, env, "console",
                          [thrown |-> FALSE, logs |-> <<>>])))

\* The state of the inner loop after one more event: r is what the event
\* pushed; perEvent keeps the records of every event that completed.
afterEvent(acc, r) ==
    [thrown |-> r.thrown,
     logs |-> acc.logs \o r.logs,
     perEvent |-> IF r.thrown THEN acc.perEvent ELSE Append(acc.perEvent, r.logs)]

\* The inner loop over one batch.
RECURSIVE processBatch(_, _, _)
processBatch(batch, env, acc) ==
    IF batch = <<>> \/ acc.thrown THEN acc
    ELSE processBatch(Tail(batch), env, afterEvent(acc, eventLogs(Head(batch), env)))

\* What a delivery wrote to the console (nothing yet).
NoLog == [level |-> "none", msg |-> ""]

\* sendToCoralogix up to its first await: fetch() has issued the POST.
sendToCoralogix(logs, env) ==
    [url |-> env.CORALOGIX_ENDPOINT,
     method |-> "POST",
     authorization |-> [bearer |-> env.CORALOGIX_API_KEY],
     contentType |-> "application/json",
     body |-> JsonText(Arr(logs)),
     posts |-> 1,
     at |-> "fetch",
     promise |-> "pending",
     response |-> Undefined,
     logged |-> NoLog]

\* Mutant: empty batches are sent too.
shouldSendAlways(logs) == Len(logs) >= 0

\* logs.length > 0
shouldSend(logs) == Len(logs) > 0

\* Mutant: the delivery is started but not handed to ctx.waitUntil.
scheduleUnregistered(acc, logs, env) ==
    [acc EXCEPT !.deliveries = Append(@, sendToCoralogix(logs, env))]

\* ctx.waitUntil(sendToCoralogix(logs, env))
schedule(acc, logs, env) ==
    [acc EXCEPT !.deliveries = Append(@, sendToCoralogix(logs, env)),
                !.waitUntil = @ \cup {Len(acc.deliveries) + 1}]

\* What the outer loop keeps of a batch whose inner loop ended as r.
keptOf(acc, r) ==
    [acc EXCEPT !.thrown = r.thrown,
                !.perEvent = @ \o r.perEvent,
                !.batchLogs = IF r.thrown THEN @ ELSE Append(@, r.logs)]

\* if (logs.length > 0) ctx.waitUntil(sendToCoralogix(logs, env))
afterBatch(acc, r, env) ==
    IF ~r.thrown /\ shouldSend(r.logs) THEN schedule(keptOf(acc, r), r.logs, env)
    ELSE keptOf(acc, r)

\* for (const batch of batches) { ... }
RECURSIVE runBatches(_, _, _)
runBatches(remaining, env, acc) ==
    IF remaining = <<>> \/ acc.thrown THEN acc
    ELSE runBatches(Tail(remaining), env,
             afterBatch(acc,
                        processBatch(Head(remaining), env,
                            [thrown |-> FALSE, logs |-> <<>>, perEvent |-> <<>>]),
                        env))

MissingConfigError ==
    [level |-> "error", src |-> 0,
     msg |-> "Missing required environment variables: CORALOGIX_API_KEY and CORALOGIX_ENDPOINT"]

\* The state tail() leaves behind once its loops have run (or raised).
dispatched(split, r) ==
    /\ pc' = IF r.thrown THEN "thrown" ELSE "returned"
    /\ batches' = split
    /\ built' = r.perEvent
    /\ batchLogs' = r.batchLogs
    /\ deliveries' = r.deliveries
    /\ waitUntil' = r.waitUntil
    /\ UNCHANGED console

\* tail() has no await: it runs to completion in one step, and the promise it
\* returns is fulfilled ("returned") or rejected by a TypeError ("thrown").
tail ==
    /\ pc = "idle"
    /\ IF configMissing(workerEnv)
       THEN /\ console' = console \cup {MissingConfigError}
            /\ pc' = "returned"
            /\ UNCHANGED <<batches, built, batchLogs, deliveries, waitUntil>>
       ELSE dispatched(splitBatches(tailEvents),
                       runBatches(splitBatches(tailEvents), workerEnv,
                           [thrown |-> FALSE, perEvent |-> <<>>, batchLogs |-> <<>>,
                            deliveries |-> <<>>, waitUntil |-> {}]))
    /\ UNCHANGED <<tailEvents, workerEnv, arg, ret>>

(***************************************************************************)
(* sendToCoralogix after its first await                                   *)
(***************************************************************************)
\* response.ok
ok(response) == response.status >= 200 /\ response.status <= 299

HttpResponses ==
    {[status |-> 200, statusText |-> "OK"],
     [status |-> 500, statusText |-> "Internal Server Error"]}

\* `await fetch(...)` resolved with response
onResponse(d, response) ==
    IF ~ok(response)
    THEN [d EXCEPT !.at = "text", !.response = response]
    ELSE [d EXCEPT !.at = "done", !.response = response, !.promise = "fulfilled",
                   !.logged = [level |-> "log", msg |-> "Successfully sent logs to Coralogix"]]

\* `await response.text()` resolved: console.error and return
onErrorText(d) ==
    [d EXCEPT !.at = "done", !.promise = "fulfilled",
              !.logged = [level |-> "error", msg |-> "Failed to send logs to Coralogix"]]

\* Mutant: a failed attempt is retried once.
onCatchRetry(d) ==
    IF d.posts < 2 THEN [d EXCEPT !.posts = @ + 1, !.at = "fetch", !.response = Undefined]
    ELSE [d EXCEPT !.at = "done", !.promise = "fulfilled",
                   !.logged = [level |-> "error", msg |-> "Error sending logs to Coralogix"]]

\* Mutant: the error is logged and thrown again.
onCatchRethrow(d) ==
    [d EXCEPT !.at = "done", !.promise = "rejected",
              !.logged = [level |-> "error", msg |-> "Error sending logs to Coralogix"]]

\* catch (error): `await fetch(...)` or `await response.text()` rejected
onCatch(d) ==
    [d EXCEPT !.at = "done", !.promise = "fulfilled",
              !.logged = [level |-> "error", msg |-> "Error sending logs to Coralogix"]]

Logged(i, d) ==
    IF d.logged = NoLog THEN {}
    ELSE {[level |-> d.logged.level, src |-> i, msg |-> d.logged.msg]}

Step(i, d) ==
    /\ deliveries' = [deliveries EXCEPT ![i] = d]
    /\ console' = console \cup Logged(i, d)
    /\ UNCHANGED <<tailEvents, workerEnv, pc, batches, built, batchLogs, waitUntil, arg, ret>>

FetchResolves(i) ==
    /\ deliveries[i].at = "fetch"
    /\ \E response \in HttpResponses : Step(i, onResponse(deliveries[i], response))

FetchRejects(i) ==
    /\ deliveries[i].at = "fetch"
    /\ Step(i, onCatch(deliveries[i]))

TextResolves(i) ==
    /\ deliveries[i].at = "text"
    /\ Step(i, onErrorText(deliveries[i]))

TextRejects(i) ==
    /\ deliveries[i].at = "text"
    /\ Step(i, onCatch(deliveries[i]))

(***************************************************************************)
(* Inputs                                                                  *)
(***************************************************************************)
MaxEvents == 250

TailEvent(scriptName, rayId, logs, exceptions, event) ==
    [t |-> "object", scriptName |-> scriptName, rayId |-> rayId, logs |-> logs,
     exceptions |-> exceptions, event |-> event, wallTime |-> Num(28)]

ConsoleLog(level, message) ==
    [t |-> "object", level |-> Str(level), message |-> message, timestamp |-> Num(1712)]

Exception(name) ==
    [t |-> "object", name |-> name, message |-> Str("boom"), timestamp |-> Undefined]

Request(url, headers, cf) ==
    [t |-> "object", method |-> Str("GET"), url |-> url, headers |-> headers, cf |-> cf]

Response(status, headers) == [t |-> "object", status |-> status, headers |-> headers]

FetchEvent(request, response) == [t |-> "object", request |-> request, response |-> response]

\* A scheduled (cron) invocation: event.event carries no request.
ScheduledEvent == [t |-> "object", cron |-> Str("* * * * *"), scheduledTime |-> Num(1712)]

Cf(ray, latitude, longitude) ==
    [t |-> "object", ray |-> ray, httpProtocol |-> Str("HTTP/2"),
     asOrganization |-> Str("Versatel"), asn |-> Num(8881), city |-> Str("Potsdam"),
     country |-> Str("DE"), continent |-> Str("EU"), postalCode |-> Str("14467"),
     latitude |-> latitude, longitude |-> longitude, colo |-> Str("TXL"),
     regionCode |-> Str("BB"), ip |-> Undefined]

Url_ok == Chars(<<"h","t","t","p","s",":","/","/","A",".","i","o","/","p","?","q","=","1">>)
Url_noPath == Chars(<<"h","t","t","p",":","/","/","a",".","i","o">>)
Url_port == Chars(<<"h","t","t","p",":","/","/","a",":","8","0","/","x","#","f">>)
Url_noSlashes == Chars(<<"h","t","t","p",":","a">>)
Url_mailto == Chars(<<"m","a","i","l","t","o",":","x","@","y">>)
Url_invalid == Chars(<<"n","o","t","-","a","-","v","a","l","i","d","-","u","r","l">>)
Url_relative == Chars(<<"/","p","a","t","h","?","q">>)
Url_noHost == Chars(<<"h","t","t","p","s",":","/","/">>)
Url_badHost == Chars(<<"h","t","t","p",":","/","/","a"," ","b","/">>)
Url_badPort == Chars(<<"h","t","t","p",":","/","/","a",":","x","/">>)
Url_badScheme == Chars(<<"1","h",":","/","/","a">>)
Url_empty == Chars(<<>>)

Urls == {Url_ok, Url_noPath, Url_port, Url_noSlashes, Url_mailto, Url_invalid,
         Url_relative, Url_noHost, Url_badHost, Url_badPort, Url_badScheme, Url_empty,
         Undefined, Null, Num(42)}

H_rayAndHost ==
    Headers(<<[k |-> K_cf_ray, v |-> Str("ray-h")], [k |-> K_host, v |-> Str("a.io")],
              [k |-> K_cf_connecting_ip, v |-> Str("10.0.0.1")]>>)
H_mixedCase ==
    Headers(<<[k |-> <<"X","-","F","o","o">>, v |-> Str("a")],
              [k |-> <<"x","_","f","o","o">>, v |-> Str("b")],
              [k |-> <<"C","F","-","R","a","y">>, v |-> Str("ray-H")]>>)
H_emptyRay == Headers(<<[k |-> K_cf_ray, v |-> Str("")]>>)

H_forwarded ==
    Headers(<<[k |-> <<"X","-","F","o","r","w","a","r","d","e","d","-","F","o","r">>,
               v |-> Str("a")]>>)

RequestHeaders == {Undefined, EmptyObject, H_rayAndHost, H_mixedCase, H_emptyRay, H_forwarded}

RH_cache == Headers(<<[k |-> K_cf_cache_status, v |-> Str("HIT")]>>)
RH_cacheUpper ==
    Headers(<<[k |-> <<"C","F","-","C","a","c","h","e","-","S","t","a","t","u","s">>,
               v |-> Str("MISS")]>>)

Responses ==
    {Undefined, Response(Num(200), RH_cache), Response(Num(404), RH_cacheUpper),
     Response(Num(500), Undefined), Response(Undefined, EmptyObject),
     Response(Num(200), H_mixedCase)}

Lat_ok == Chars(<<"5","2",".","3","9","8","8","6">>)
Lon_ok == Chars(<<"1","3",".","0","6","5","6","6">>)
Lat_zero == Chars(<<"0">>)
Lat_bad == Chars(<<"n","o","t","-","a","-","n","u","m","b","e","r">>)
Lat_neg == Chars(<<"-","3","3",".","5","0">>)

Cfs == {Undefined, Cf(Str("ray-cf"), Lat_ok, Lon_ok), Cf(Undefined, Lat_zero, Lat_neg),
        Cf(Str(""), Lat_bad, Undefined)}

Envs ==
    {[CORALOGIX_API_KEY |-> key, CORALOGIX_ENDPOINT |-> endpoint,
      APPLICATION_NAME |-> Undefined, SUBSYSTEM_NAME |-> Str("default-subsystem")] :
        key \in {Undefined, Str(""), Str("secret")},
        endpoint \in {Undefined, Str("https://ingress.coralogix.com/logs/v1/singles")}}

ValidEnv == CHOOSE env \in Envs : ~configMissing(env)

\* The owning events the batches are made of.
E_empty == TailEvent(Str("worker"), Undefined, Arr(<<>>), Arr(<<>>), Null)
E_tick ==
    TailEvent(Str("worker"), Undefined, Arr(<<ConsoleLog("log", Str("tick"))>>), Arr(<<>>),
              Null)
E_logs ==
    TailEvent(Str("worker"), Str("ray-e"),
              Arr(<<ConsoleLog("warn", Arr(<<Str("a"), [t |-> "object", b |-> Num(1)]>>)),
                    ConsoleLog("info", Str("plain"))>>),
              Arr(<<>>), Undefined)
E_full ==
    TailEvent(Str("worker"), Undefined,
              Arr(<<ConsoleLog("error", Arr(<<Str("x")>>))>>),
              Arr(<<Exception(Str("TypeError"))>>),
              FetchEvent(Request(Url_ok, H_rayAndHost, Cf(Str("ray-cf"), Lat_ok, Lon_ok)),
                         Response(Num(404), RH_cache)))
E_scheduled ==
    TailEvent(Str("cron-worker"), Undefined, Arr(<<ConsoleLog("log", Arr(<<Str("tick")>>))>>),
              Arr(<<>>), ScheduledEvent)
E_badUrl ==
    TailEvent(Str("worker"), Str("ray-e"), Undefined, Undefined,
              FetchEvent(Request(Url_invalid, EmptyObject, Undefined), Undefined))
E_noHeaders ==
    TailEvent(Undefined, Str("ray-e"), Arr(<<>>), Arr(<<Exception(Undefined)>>),
              FetchEvent(Request(Url_noPath, Undefined, Cf(Str("ray-cf"), Lat_zero, Lat_bad)),
                         Response(Num(500), Undefined)))
E_nullLog ==
    TailEvent(Str("worker"), Undefined, Arr(<<ConsoleLog("debug", Arr(<<>>)), Null>>),
              Arr(<<>>), Undefined)
E_nullException ==
    TailEvent(Str("worker"), Undefined, Arr(<<ConsoleLog("debug", Arr(<<>>))>>),
              Arr(<<Null>>), Undefined)
E_logsNotIterable == TailEvent(Str("worker"), Undefined, Num(5), Arr(<<>>), Undefined)
E_stringLog == TailEvent(Str("worker"), Undefined, Arr(<<Str("oops")>>), Undefined, Undefined)

WellFormedEvents == {E_empty, E_tick, E_logs, E_full, E_scheduled, E_badUrl, E_noHeaders}
MalformedEvents == {E_nullLog, E_nullException, E_logsNotIterable, E_stringLog}
EventPool == WellFormedEvents \cup MalformedEvents

\* Batch lengths: those around the multiples of batchSize, and the longest.
BatchLengths ==
    {n \in 0..MaxEvents : n % batchSize \in {0, 1, batchSize - 1} \/ n = MaxEvents}

\* A batch of n events: filler everywhere but at the positions `at`.
BatchOf(n, filler, at, special) == [i \in 1..n |-> IF i \in at THEN special ELSE filler]

\* The positions of the special event: first, first and last, either side of
\* the first batch boundary, or one in each of three batches.
Positions(n) == {{1}, {1, n}, {batchSize}, {batchSize + 1}, {1, batchSize + 1, n}}

\* Batches of events that build nothing but for the special ones, batches in
\* which every event builds a record, and batches in which a malformed event
\* follows an event of its batch that built a record.
Batches ==
    UNION {{BatchOf(n, E_empty, at, special) : at \in Positions(n), special \in EventPool}
           \cup {BatchOf(n, E_tick, at, special) :
                    at \in {{1}, {batchSize + 1}}, special \in EventPool}
           \cup {BatchOf(n, E_tick, {batchSize + 2}, special) : special \in MalformedEvents} :
           n \in BatchLengths}

(***************************************************************************)
(* The worker: one tail() invocation and the deliveries it started         *)
(***************************************************************************)
Init ==
    /\ tailEvents \in Batches
    /\ workerEnv \in Envs
    /\ pc = "idle"
    /\ batches = <<>>
    /\ built = <<>>
    /\ batchLogs = <<>>
    /\ deliveries = <<>>
    /\ waitUntil = {}
    /\ console = {}
    /\ arg = Undefined
    /\ ret = Undefined

Next ==
    \/ tail
    \/ \E i \in DOMAIN deliveries : FetchResolves(i)
    \/ \E i \in DOMAIN deliveries : FetchRejects(i)
    \/ \E i \in DOMAIN deliveries : TextResolves(i)
    \/ \E i \in DOMAIN deliveries : TextRejects(i)

Spec == Init /\ [][Next]_vars

(***************************************************************************)
(* Direct calls of the pure functions                                      *)
(***************************************************************************)
NoTail ==
    /\ tailEvents = <<>>
    /\ batches = <<>>
    /\ built = <<>>
    /\ batchLogs = <<>>
    /\ deliveries = <<>>
    /\ waitUntil = {}
    /\ console = {}

ConvertInputs ==
    {TailEvent(Str("worker"), Undefined, Undefined, Undefined, e) :
        e \in {Undefined, Null, ScheduledEvent, FetchEvent(Undefined, Undefined),
               FetchEvent(Null, Response(Num(200), EmptyObject))}}
    \cup
    {TailEvent(Str("worker"), Undefined, Undefined, Undefined,
               FetchEvent(Request(url, headers, cf), response)) :
        url \in Urls, headers \in RequestHeaders, cf \in Cfs, response \in Responses}

InitConvert ==
    /\ NoTail
    /\ workerEnv = ValidEnv
    /\ pc = "call"
    /\ arg \in ConvertInputs
    /\ ret = Undefined

CallConvert ==
    /\ pc = "call"
    /\ ret' = tailEvent2fastly(arg)
    /\ pc' = "done"
    /\ UNCHANGED <<tailEvents, workerEnv, batches, built, batchLogs, deliveries,
                   waitUntil, console, arg>>

SpecConvert == InitConvert /\ [][CallConvert]_vars

\* The owning events createCoralogixLog is called on, and the calls tail()
\* makes for each of them.
NormalizeEvents ==
    {TailEvent(scriptName, rayId, Arr(<<ConsoleLog("warn", Arr(<<Str("a")>>))>>),
               Arr(<<Exception(Str("Error"))>>), e) :
        scriptName \in {Undefined, Str("worker")},
        rayId \in {Undefined, Null, Str(""), Str("ray-e")},
        e \in {Undefined, Null, ScheduledEvent}
              \cup {FetchEvent(Request(url, headers, cf), Response(Num(200), EmptyObject)) :
                        url \in {Url_ok, Url_invalid}, headers \in RequestHeaders, cf \in Cfs}}

\* Response statuses: absent, either side of the thresholds, fractional.
Statuses ==
    {Undefined, Null, Num(0), Num(200), Num(304), Num(399), Num(400), Num(404),
     Num(499), Dec(4995, 1), Num(500), Num(503), Num(599)}

\* Fetch events that differ in the response status, and in what else the
\* request and the response carry.
StatusEvents ==
    {TailEvent(Str("worker"), Undefined, Arr(<<>>), Arr(<<>>),
               FetchEvent(Request(Url_ok, headers, Cf(Str("ray-cf"), Lat_ok, Lon_ok)),
                          Response(status, responseHeaders))) :
        status \in Statuses, headers \in {Undefined, H_rayAndHost},
        responseHeaders \in {Undefined, RH_cache}}

\* The levels of the console methods, and one SEVERITY_MAP does not list.
Levels == {"debug", "info", "log", "warn", "error", "trace"}

LevelEvents ==
    {TailEvent(Str("worker"), Undefined, Arr(<<ConsoleLog(level, Arr(<<Str("a")>>))>>),
               Arr(<<>>), Undefined) : level \in Levels}

\* Owning events with a missing, null, empty or present scriptName.
ScriptNameEvents ==
    {TailEvent(scriptName, Undefined, Arr(<<ConsoleLog("log", Str("plain"))>>),
               Arr(<<Exception(Str("Error"))>>),
               FetchEvent(Request(Url_ok, H_rayAndHost, Undefined),
                          Response(Num(200), EmptyObject))) :
        scriptName \in {Undefined, Null, Str(""), Str("worker"), Str("other-worker")}}

\* Valid configurations with and without a default subsystem name.
NormalizeEnvs ==
    {[ValidEnv EXCEPT !.SUBSYSTEM_NAME = name] :
        name \in {Undefined, Str("default-subsystem"), Str("worker")}}

NormalizeCalls(event) ==
    {[logData |-> event.logs.items[i], event |-> event, type |-> "console"] :
        i \in DOMAIN event.logs.items}
    \cup {[logData |-> event.exceptions.items[i], event |-> event, type |-> "exception"] :
            i \in DOMAIN event.exceptions.items}
    \cup {[logData |-> event.event, event |-> event, type |-> "fetch"] :
            x \in IF hasFetchEvent(event) THEN {1} ELSE {}}

InitNormalize ==
    /\ NoTail
    /\ workerEnv \in NormalizeEnvs
    /\ pc = "call"
    /\ arg \in UNION {NormalizeCalls(event) :
                        event \in NormalizeEvents \cup StatusEvents \cup LevelEvents
                                  \cup ScriptNameEvents}
    /\ ret = Undefined

CallNormalize ==
    /\ pc = "call"
    /\ ret' = createCoralogixLog(arg.logData, arg.event, workerEnv, arg.type)
    /\ pc' = "done"
    /\ UNCHANGED <<tailEvents, workerEnv, batches, built, batchLogs, deliveries,
                   waitUntil, console, arg>>

SpecNormalize == InitNormalize /\ [][CallNormalize]_vars

(***************************************************************************)
(* Properties                                                              *)
(***************************************************************************)
Absent(v) == v = Undefined \/ v = Null \/ v = Str("") \/ v = Chars(<<>>)

KeyOrEndpointMissing ==
    Absent(workerEnv.CORALOGIX_API_KEY) \/ Absent(workerEnv.CORALOGIX_ENDPOINT)

Dispatched == pc \in {"returned", "thrown"}

\* C1: with the API key or the endpoint missing, tail() logs an error and
\* returns normally; it builds no record and schedules or POSTs no delivery.
C1_MissingConfigAborts ==
    (Dispatched /\ KeyOrEndpointMissing) =>
        /\ pc = "returned"
        /\ \E m \in console : m.level = "error" /\ m.src = 0
        /\ batches = <<>>
        /\ built = <<>>
        /\ batchLogs = <<>>
        /\ deliveries = <<>>
        /\ waitUntil = {}

C1_Witness ==
    /\ pc = "returned"
    /\ Absent(workerEnv.CORALOGIX_ENDPOINT)
    /\ ~Absent(workerEnv.CORALOGIX_API_KEY)
    /\ Len(tailEvents) > batchSize
    /\ \E i \in DOMAIN tailEvents : tailEvents[i] = E_full

ArrayLength(v) == IF v.t = "array" THEN Len(v.items) ELSE 0
Present(v) == v # Undefined /\ v # Null
HasRequest(e) == Present(e) /\ "request" \in DOMAIN e /\ Present(e.request)
CountCategory(logs, category) ==
    Cardinality({j \in DOMAIN logs : logs[j].category = Str(category)})

C2_WitnessNoRequest ==
    /\ pc = "returned"
    /\ \E i \in DOMAIN built : tailEvents[i] = E_scheduled /\ Len(built[i]) = 1

NonEmpty(logs) == Len(logs) > 0

RECURSIVE Flatten(_)
Flatten(seqs) == IF seqs = <<>> THEN <<>> ELSE Head(seqs) \o Flatten(Tail(seqs))

\* C4: the batches concatenate to the input; all but the last hold exactly 100
\* events, the last between 1 and 100; an empty input gives no batch.
C4_Partition ==
    (Dispatched /\ ~KeyOrEndpointMissing) =>
        /\ Flatten(batches) = tailEvents
        /\ \A b \in DOMAIN batches :
              IF b < Len(batches) THEN Len(batches[b]) = 100
              ELSE Len(batches[b]) >= 1 /\ Len(batches[b]) <= 100
        /\ (tailEvents = <<>>) => (batches = <<>>)

C4_Witness ==
    /\ Dispatched
    /\ Len(tailEvents) = 250
    /\ [b \in DOMAIN batches |-> Len(batches[b])] = <<100, 100, 50>>

\* C5: tail() never waits for a delivery: when it returns, every delivery it
\* started is still pending, and every delivery is registered with
\* ctx.waitUntil from the moment it exists.
C5_RegisteredNotAwaited ==
    /\ [](\A i \in DOMAIN deliveries : i \in waitUntil)
    /\ [][(pc = "idle" /\ pc' # "idle") =>
              \A i \in DOMAIN deliveries' :
                  deliveries'[i].promise = "pending" /\ i \in waitUntil']_vars

C5_Witness ==
    /\ pc = "returned"
    /\ Len(deliveries) = 3
    /\ deliveries[1].promise = "fulfilled"
    /\ deliveries[2].promise = "pending"
    /\ waitUntil = {1, 2, 3}

\* C6: every delivery issues exactly one POST, whatever its outcome, and a
\* settled delivery never acts again.
C6_AtMostOnce ==
    /\ [](\A i \in DOMAIN deliveries : deliveries[i].posts = 1)
    /\ [][\A i \in DOMAIN deliveries :
              deliveries[i].at = "done" => deliveries'[i] = deliveries[i]]_vars

C6_Witness ==
    /\ Len(deliveries) = 3
    /\ deliveries[1].at = "done" /\ deliveries[1].response = Undefined
    /\ deliveries[2].at = "done" /\ deliveries[2].response # Undefined
    /\ deliveries[2].response.status = 500
    /\ deliveries[3].at = "done" /\ deliveries[3].response # Undefined
    /\ deliveries[3].response.status = 200

Failed(d) == d.response = Undefined \/ d.response.status < 200 \/ d.response.status > 299

\* C7: a failed delivery writes an error to the console and its promise is
\* fulfilled, never rejected; a step of one delivery changes neither the
\* outcome of tail() nor any other delivery.
C7_FailureIsolated ==
    /\ [](\A i \in DOMAIN deliveries :
              LET d == deliveries[i]
              IN /\ d.promise \in {"pending", "fulfilled"}
                 /\ (d.at = "done") <=> (d.promise = "fulfilled")
                 /\ (d.at = "done" /\ Failed(d)) =>
                        \E m \in console : m.src = i /\ m.level = "error")
    /\ [][pc # "idle" =>
              /\ pc' = pc
              /\ waitUntil' = waitUntil
              /\ DOMAIN deliveries' = DOMAIN deliveries
              /\ \A i, j \in DOMAIN deliveries :
                     (i # j /\ deliveries'[i] # deliveries[i]) =>
                         deliveries'[j] = deliveries[j]
              /\ \A i \in DOMAIN deliveries :
                     /\ deliveries'[i].body = deliveries[i].body
                     /\ deliveries'[i].url = deliveries[i].url]_vars

C7_Witness ==
    /\ pc = "returned"
    /\ Len(deliveries) = 3
    /\ deliveries[1].at = "done" /\ Failed(deliveries[1])
    /\ deliveries[1].response # Undefined
    /\ deliveries[2].at = "done" /\ ~Failed(deliveries[2])
    /\ deliveries[3].at = "done" /\ deliveries[3].response = Undefined
    /\ \E m \in console : m.src = 1 /\ m.level = "error"
    /\ \E m \in console : m.src = 2 /\ m.level = "log"

\* C8: tail() never raises: the promise it returns is never rejected, whatever
\* the events of the batch look like.
C8_NeverRaises == pc # "thrown"

FirstPresent(candidates, fallback) ==
    IF \E i \in DOMAIN candidates : ~Absent(candidates[i])
    THEN candidates[CHOOSE i \in DOMAIN candidates :
                        ~Absent(candidates[i]) /\ \A j \in 1..(i - 1) : Absent(candidates[j])]
    ELSE fallback

RequestOf(event) == IF HasRequest(event.event) THEN event.event.request ELSE Undefined

\* C9: threadId is the first present of the request's cf-ray header, the
\* request's cf.ray and the owning event's rayId, else the scriptName; also
\* when the owning event has no fetch request or the request has no headers.
C9_ThreadIdOrder ==
    (pc = "done") =>
        LET event == arg.event
            request == RequestOf(event)
            header == IF Present(request) /\ Present(request.headers)
                      THEN HGet(request.headers, K_cf_ray) ELSE Undefined
            cfRay == IF Present(request) /\ Present(request.cf)
                     THEN request.cf.ray ELSE Undefined
        IN ret.threadId = FirstPresent(<<header, cfRay, event.rayId>>, event.scriptName)

AbsoluteUrls == {Url_ok, Url_noPath, Url_port, Url_noSlashes, Url_mailto}

Sections == {"request", "response", "helix", "client", "cdn"}

\* C10: tailEvent2fastly returns null exactly when event.request is missing or
\* request.url is not an absolute URL; otherwise a record with the request,
\* response, helix, client and cdn sections.
C10_NullIffNoRequestOrBadUrl ==
    (pc = "done") =>
        LET request == RequestOf(arg)
            fails == ~Present(request) \/ request.url \notin AbsoluteUrls
        IN /\ (ret = Null) <=> fails
           /\ ~fails => /\ Sections \subseteq DOMAIN ret
                        /\ \A section \in Sections : ret[section].t = "object"

C10_WitnessNoRequest == pc = "done" /\ arg.event = ScheduledEvent /\ ret = Null

C10_WitnessBadUrl ==
    /\ pc = "done"
    /\ HasRequest(arg.event)
    /\ arg.event.request.url = Url_badHost
    /\ ret = Null

C10_Witness ==
    /\ pc = "done"
    /\ HasRequest(arg.event)
    /\ arg.event.request.url = Url_noSlashes
    /\ arg.event.request.headers = Undefined
    /\ ret # Null
    /\ ret.request.host = Chars(<<"a">>)
    /\ ret.request.url = Chars(<<"/">>)

IsFetch(log) == log.category = Str("fetch")

\* The converter fails on an owning event with a sub-event: the sub-event has
\* no request (NoRequestData) or its url is not absolute (InvalidUrl).
ConversionFails(e) ==
    /\ Present(e.event)
    /\ ~HasRequest(e.event) \/ e.event.request.url \notin AbsoluteUrls

HasNullish(list) ==
    list.t = "array" /\ \E j \in DOMAIN list.items : ~Present(list.items[j])

\* An owning event on whose own data tail() raises (C8).
Malformed(e) ==
    \/ ~Present(e)
    \/ Truthy(e.logs) /\ (e.logs.t # "array" \/ HasNullish(e.logs))
    \/ Truthy(e.exceptions) /\ (e.exceptions.t # "array" \/ HasNullish(e.exceptions))

BatchIndex(i) == ((i - 1) \div 100) + 1

\* The records of the events of batch b, in order.
BuiltOfBatch(b) ==
    Flatten(SubSeq(built, 100 * (b - 1) + 1, Min(100 * b, Len(built))))

Placeholder == Str("Failed to convert fetch event")

C11_WitnessNoRequest ==
    /\ pc = "returned"
    /\ Len(built) >= 2
    /\ tailEvents[1] = E_scheduled
    /\ ConversionFails(tailEvents[1])
    /\ CountCategory(built[1], "fetch") = 0
    /\ tailEvents[2] = E_tick
    /\ Len(built[2]) = 1

ResponseStatus(e) ==
    IF Present(e.response) /\ "status" \in DOMAIN e.response THEN e.response.status
    ELSE Undefined

\* The severity the status calls for: 5 from 500, 4 from 400, else 3.
SeverityOfStatus(status) ==
    IF ~Present(status) THEN Num(3)
    ELSE IF status.m >= 500 * (10 ^ status.e) THEN Num(5)
    ELSE IF status.m >= 400 * (10 ^ status.e) THEN Num(4)
    ELSE Num(3)

Converted(call) ==
    /\ call.type = "fetch"
    /\ HasRequest(call.event.event)
    /\ call.event.event.request.url \in AbsoluteUrls

\* C12: the severity of a fetch record whose conversion succeeded depends on
\* the response status only: 5 from 500 up, 4 from 400 to below 500, 3 for any
\* other status and for an absent one; every record's severity is 1, 3, 4 or 5.
C12_SeverityFromStatus ==
    (pc = "done") =>
        /\ ret.severity \in {Num(1), Num(3), Num(4), Num(5)}
        /\ Converted(arg) => ret.severity = SeverityOfStatus(ResponseStatus(arg.event.event))

C12_Witness ==
    /\ pc = "done"
    /\ Converted(arg)
    /\ ResponseStatus(arg.event.event) = Num(404)
    /\ ret.text.json.response.status = Chars(<<"4", "0", "4">>)
    /\ ret.severity = Num(4)

C12_Witness500 ==
    /\ pc = "done"
    /\ Converted(arg)
    /\ ResponseStatus(arg.event.event) = Num(500)
    /\ ret.severity = Num(5)

C12_WitnessAbsent ==
    /\ pc = "done"
    /\ Converted(arg)
    /\ ResponseStatus(arg.event.event) = Undefined
    /\ ret.severity = Num(3)

C12_WitnessDebug == pc = "done" /\ arg.type = "console" /\ ret.severity = Num(1)

C13_WitnessPresent ==
    /\ pc = "done"
    /\ arg.event.scriptName = Str("other-worker")
    /\ workerEnv.SUBSYSTEM_NAME = Str("default-subsystem")
    /\ ret.computerName = Str("other-worker")
    /\ ret.subsystemName = Str("other-worker")

K_folded_cache_status == replaceHyphens(K_cf_cache_status)

ResponseHeadersOf(e) ==
    IF Present(e.response) /\ Present(e.response.headers) THEN e.response.headers
    ELSE EmptyObject

\* C14: in a converted record cdn.cache_status is the value stored under the
\* folded key cf_cache_status of the record's own response.headers, whatever
\* the letter case of the original header name.
C14_CacheStatusAfterFold ==
    (pc = "done" /\ ret # Null) =>
        ret.cdn.cache_status = HGet(ret.response.headers, K_folded_cache_status)

\* The lookup the code makes: the exact key cf-cache-status of the response
\* headers as they arrived.
C14_CacheStatusBeforeFold ==
    (pc = "done" /\ ret # Null) =>
        ret.cdn.cache_status = HGet(ResponseHeadersOf(arg.event), K_cf_cache_status)

C14_WitnessMiss ==
    /\ pc = "done"
    /\ ret # Null
    /\ ResponseHeadersOf(arg.event) = RH_cacheUpper
    /\ HGet(ret.response.headers, K_folded_cache_status) = Str("MISS")
    /\ ret.cdn.cache_status = Undefined

CfOf(e) == IF HasRequest(e) /\ Present(e.request.cf) THEN e.request.cf ELSE Undefined

\* The coordinate the claim calls for: the parsed number, zero included, and
\* absent exactly when parsing yields not-a-number.
ParsedOrAbsent(x) == IF parseFloat(x) = NaN THEN Undefined ELSE parseFloat(x)

GeoPoint(record) == record.cdn.originating_ip_geoip.location_geopoint

\* C15: location_geopoint.lat and .lon are the numbers parsed from cf.latitude
\* and cf.longitude whenever parsing yields a number, zero included, and are
\* absent exactly when it yields not-a-number.
C15_GeoParsed ==
    (pc = "done" /\ ret # Null) =>
        /\ GeoPoint(ret).lat = ParsedOrAbsent(OptProp(CfOf(arg.event), "latitude"))
        /\ GeoPoint(ret).lon = ParsedOrAbsent(OptProp(CfOf(arg.event), "longitude"))

\* What holds of the code: never NaN, a parse failure is absent and not 0,
\* and every parsed number other than zero is kept.
C15_GeoParsedNonZero ==
    (pc = "done" /\ ret # Null) =>
        \A f \in {"lat", "lon"} :
            LET parsed == parseFloat(OptProp(CfOf(arg.event),
                                             IF f = "lat" THEN "latitude" ELSE "longitude"))
            IN /\ GeoPoint(ret)[f] # NaN
               /\ parsed = NaN => GeoPoint(ret)[f] = Undefined
               /\ (parsed # NaN /\ parsed # Num(0)) => GeoPoint(ret)[f] = parsed

C15_WitnessZero ==
    /\ pc = "done"
    /\ ret # Null
    /\ OptProp(CfOf(arg.event), "latitude") = Lat_zero
    /\ parseFloat(Lat_zero) = Num(0)
    /\ GeoPoint(ret).lat = Undefined
    /\ GeoPoint(ret).lon = Dec(-335, 1)

RequestHeadersOf(e) ==
    IF HasRequest(e) /\ Present(e.request.headers) THEN e.request.headers ELSE EmptyObject

IsUpper(c) == \E i \in DOMAIN UpperCase : UpperCase[i] = c

\* The folded form of a header name: lower case, underscores for hyphens.
FoldedKey(k) ==
    [i \in DOMAIN k |->
        IF k[i] = "-" THEN "_"
        ELSE IF IsUpper(k[i]) THEN LowerCase[CHOOSE j \in DOMAIN UpperCase : UpperCase[j] = k[i]]
        ELSE k[i]]

\* folded is the folding of the header mapping raw.
IsFoldingOf(folded, raw) ==
    /\ \A i \in DOMAIN folded :
          /\ \A c \in DOMAIN folded[i].k : ~IsUpper(folded[i].k[c]) /\ folded[i].k[c] # "-"
          /\ \A j \in DOMAIN folded : folded[j].k = folded[i].k => j = i
          /\ \E j \in DOMAIN raw :
                /\ FoldedKey(raw[j].k) = folded[i].k
                /\ raw[j].v = folded[i].v
                /\ \A l \in (j + 1)..Len(raw) : FoldedKey(raw[l].k) # folded[i].k
    /\ \A j \in DOMAIN raw : \E i \in DOMAIN folded : folded[i].k = FoldedKey(raw[j].k)

\* C16: the request and the response headers of a converted record are the
\* foldings of the original ones: every key lower-cased with each hyphen
\* replaced by an underscore, values unchanged, the last entry winning when
\* two keys fold to the same one.
C16_HeaderFolding ==
    (pc = "done" /\ ret # Null) =>
        /\ IsFoldingOf(Entries(ret.request.headers), Entries(RequestHeadersOf(arg.event)))
        /\ IsFoldingOf(Entries(ret.response.headers), Entries(ResponseHeadersOf(arg.event)))

\* {'X-Forwarded-For': 'a'} folds to {x_forwarded_for: 'a'}; in the response
\* 'X-Foo' and 'x_foo' collide and the later value 'b' wins.
C16_Witness ==
    /\ pc = "done"
    /\ ret # Null
    /\ RequestHeadersOf(arg.event) = H_forwarded
    /\ Entries(ret.request.headers) =
           <<[k |-> <<"x","_","f","o","r","w","a","r","d","e","d","_","f","o","r">>,
              v |-> Str("a")]>>
    /\ ResponseHeadersOf(arg.event) = H_mixedCase
    /\ Len(Entries(ret.response.headers)) = 2
    /\ HGet(ret.response.headers, <<"x","_","f","o","o">>) = Str("b")

Bodies == [d \in DOMAIN deliveries |-> deliveries[d].body.json.items]

BatchCount == (Len(tailEvents) + 99) \div 100

CategoryRank(log) ==
    CASE log.category = Str("console") -> 1
      [] log.category = Str("exception") -> 2
      [] OTHER -> 3

\* Every record built is in exactly one delivery body; each body is the
\* records of one batch of at most 100 consecutive owning events, in input
\* order; an event's console records precede its exception records, which
\* precede its fetch record.
DeliveredOnceInOrder ==
    /\ Flatten(Bodies) = Flatten(built)
    /\ Len(deliveries) = Cardinality({b \in 1..BatchCount : BuiltOfBatch(b) # <<>>})
    /\ \A b \in 1..BatchCount :
          BuiltOfBatch(b) # <<>> => \E d \in DOMAIN Bodies : Bodies[d] = BuiltOfBatch(b)
    /\ \A i \in DOMAIN built : \A j, k \in DOMAIN built[i] :
          j < k => CategoryRank(built[i][j]) <= CategoryRank(built[i][k])

\* C17: within one tail() call with a valid configuration, every record built
\* is in exactly one delivery body, the records of one owning event are in the
\* same body, a body holds the records of at most 100 owning events, in input
\* order and, per event, console, then exception, then fetch records.
C17_EveryRecordDeliveredOnce == (Dispatched /\ ~KeyOrEndpointMissing) => DeliveredOnceInOrder

\* What holds of the code: the same, for the calls of tail() that return.
C17_DeliveredOnceWhenReturned ==
    (pc = "returned" /\ ~KeyOrEndpointMissing) => DeliveredOnceInOrder

C17_WitnessReturned ==
    /\ pc = "returned"
    /\ Len(tailEvents) = 250
    /\ Len(deliveries) = 3
    /\ tailEvents[101] = E_full
    /\ Len(Bodies[1]) = 100
    /\ Len(Bodies[2]) = 102
    /\ Bodies[2][1].category = Str("console")
    /\ Bodies[2][2].category = Str("exception")
    /\ Bodies[2][3].category = Str("fetch")
    /\ Len(Bodies[3]) = 50

\* A malformed event in the second batch: the records built for the events
\* before it in that batch are in no delivery.
C17_WitnessDropped ==
    /\ pc = "thrown"
    /\ Len(built) > 100
    /\ Len(built) < Len(tailEvents)
    /\ Len(deliveries) = 1
    /\ Len(Flatten(Bodies)) < Len(Flatten(built))

====
